---- MODULE Spec2Model ----
(***************************************************************************)
(* TransparentCache (src/cache.go): a read-through price cache in front of *)
(* a slow, fallible PriceService.                                          *)
(*                                                                         *)
(* One client goroutine ("main") calls GetPriceFor and GetPricesFor one    *)
(* after the other.  GetPriceFor called directly runs as unit 0;           *)
(* GetPricesFor(c1..cn) starts the worker goroutines 1..n, each running    *)
(* GetPriceFor(ci), and the workers interleave freely with each other and  *)
(* with the clock.  The PriceService is opaque: a call to it returns any   *)
(* price or any error, after any delay.                                    *)
(***************************************************************************)
EXTENDS Integers, Sequences, FiniteSets, Bags, TLC

\* ---------------------------------------------------------------- bounds
MaxBatch == 2      \* longest itemCodes of a GetPricesFor call
MaxOps   == 2      \* calls the client makes, one after the other

Codes     == {"A", "B"}          \* item codes the client asks for
Prices    == {10, 20}            \* prices the PriceService may answer
SvcErrors == {<<"unavailable">>} \* errors the PriceService may answer
MaxAges   == {0, 1}              \* maxAge given to NewTransparentCache

Units   == 0 .. MaxBatch         \* 0: the client's own GetPriceFor; 1..n: workers
Workers == 1 .. MaxBatch

\* The clock runs from 0 to the largest maxAge: an entry is then seen younger
\* than maxAge, as old as maxAge, and (maxAge = 0) older than maxAge.
Clock == 0 .. (CHOOSE a \in MaxAges : \A b \in MaxAges : b <= a)

VARIABLES
    maxAge,     \* TransparentCache.maxAge
    prices,     \* TransparentCache.prices: a function on the cached codes
    mutex,      \* TransparentCache.mutex: -1 free, else the unit holding it
    now,        \* the clock read by time.Now and time.Since
    crashed,    \* the Go runtime stopped the process (fatal error)
    pc,         \* pc[u]: where unit u is in GetPriceFor / worker
    code,       \* code[u]: itemCode of unit u's GetPriceFor
    at,         \* at[u]: time.Now() of line 59, while the unit writes
    retAt,      \* retAt[u]: the clock when the service answered unit u a price
                \* (line 52), until the unit has written
    ret,        \* ret[u]: (price, err) GetPriceFor returns / the service answered
    calls,      \* calls[u]: PriceService calls made by unit u's GetPriceFor
    mpc,        \* where the client is
    itemCodes,  \* argument of the running GetPricesFor
    output,     \* the output channel's queue
    closed,     \* the output channel was closed
    wg,         \* the WaitGroup's counter
    results,    \* results of GetPricesFor
    rerr,       \* error GetPricesFor returns
    ops,        \* calls the client has started
    \* history, of the client's own GetPriceFor calls (unit 0):
    pre,        \* c.prices when the running call started (also of a
                \* GetPricesFor without codes)
    t0,         \* the clock when the running call started
    lookT,      \* the clock at the running call's line 46-48
    svc,        \* what the PriceService answered the running call
    prev,       \* the calls before the running one, back to the last GetPricesFor
    \* history, of the running GetPricesFor:
    sent,       \* the responses sent to output so far, in the order sent
    \* history, kept by the traced specifications only:
    traced,     \* whether the run is traced
    order,      \* the units in the order the service answered them a price
    wrote       \* the units in the order they wrote the map

vars == <<maxAge, prices, mutex, now, crashed, pc, code, at, retAt, ret, calls,
          mpc, itemCodes, output, closed, wg, results, rerr, ops,
          pre, t0, lookT, svc, prev, sent, traced, order, wrote>>

cacheVars  == <<maxAge, prices, mutex>>
batchVars  == <<mpc, itemCodes, output, closed, wg, results, rerr, ops>>
histVars   == <<pre, t0, lookT, svc, prev, sent>>
raceVars   == <<traced, order, wrote>>

\* ------------------------------------------------------------ data model
\* An error is the sequence of the parts of its message; nil is the empty one.
NilErr == << >>

\* priceValue{Price, CreatedAt}
priceValue(p, t) == [Price |-> p, CreatedAt |-> t]

ZeroValue == priceValue(0, 0)

\* priceResponse{Price, Err}
priceResponse(p, e) == [Price |-> p, Err |-> e]

\* fmt.Errorf("getting price from service : %v", err.Error())
WrapErr(e) == <<"getting price from service : ">> \o e

\* v, ok := c.prices[itemCode]
MapGet(m, k) ==
    IF k \in DOMAIN m THEN [v |-> m[k], ok |-> TRUE]
                      ELSE [v |-> ZeroValue, ok |-> FALSE]

\* Mutant of MapPut: an entry already present is kept.
MapPutIfAbsent(m, k, e) ==
    [x \in (DOMAIN m) \cup {k} |-> IF x \in DOMAIN m THEN m[x] ELSE e]

\* Mutant of MapPut: the map is replaced by one holding the new entry alone.
MapPutAlone(m, k, e) == [x \in {k} |-> e]

\* c.prices[itemCode] = e
MapPut(m, k, e) == [x \in (DOMAIN m) \cup {k} |-> IF x = k THEN e ELSE m[x]]

\* Mutants of Fresh: the comparison turned round; time.Until for time.Since;
\* <= for <.
FreshInverted(v, t, age) == t - v.CreatedAt > age
FreshUntil(v, t, age) == v.CreatedAt - t < age
FreshInclusive(v, t, age) == t - v.CreatedAt <= age

\* time.Since(v.CreatedAt) < c.maxAge
Fresh(v, t, age) == t - v.CreatedAt < age

NoRet  == priceResponse(0, NilErr)

\* prev: n calls, which made svcN PriceService calls; the last of them was
\* GetPriceFor(code), started at t0, made lastCalls calls and returned ret.
NoPrev == [n |-> 0, svcN |-> 0, code |-> "A", t0 |-> 0, lastCalls |-> 0, ret |-> NoRet]

\* ------------------------------------------------------------------ Init
InitTraced(tr) ==
    /\ maxAge \in MaxAges
    /\ prices = << >>
    /\ mutex = -1
    /\ now = 0
    /\ crashed = FALSE
    /\ pc = [u \in Units |-> "idle"]
    /\ code = [u \in Units |-> "A"]
    /\ at = [u \in Units |-> 0]
    /\ retAt = [u \in Units |-> 0]
    /\ ret = [u \in Units |-> NoRet]
    /\ calls = [u \in Units |-> 0]
    /\ mpc = "idle"
    /\ itemCodes = << >>
    /\ output = << >>
    /\ closed = FALSE
    /\ wg = 0
    /\ results = << >>
    /\ rerr = NilErr
    /\ ops = 0
    /\ pre = << >>
    /\ t0 = 0
    /\ lookT = 0
    /\ svc = NoRet
    /\ prev = NoPrev
    /\ sent = << >>
    /\ traced = tr
    /\ order = << >>
    /\ wrote = << >>

\* The state NewTransparentCache returns, the client having called nothing.
Init == InitTraced(FALSE)

\* ------------------------------------------------- GetPriceFor, per unit
\* Some other unit is inside lines 56-61, writing the map.
WriterBeside(u) == mutex # -1 /\ mutex # u

\* What the read of code k may produce while the holder of the mutex writes
\* the map, a data race: the entry as it was, no entry (the buckets are being
\* moved), and, when the write is of k itself, the new entry or one with only
\* its Price or only its CreatedAt written yet.
RacyReads(k) ==
    LET old == MapGet(prices, k)
        w   == mutex
    IN  {old, [v |-> ZeroValue, ok |-> FALSE]}
        \cup (IF code[w] = k
               THEN {[v |-> priceValue(p, t), ok |-> TRUE] :
                        p \in {old.v.Price, ret[w].Price},
                        t \in {old.v.CreatedAt, at[w]}}
               ELSE {})

\* lines 46-52: v, ok := c.prices[itemCode], read without the mutex; a fresh
\* entry is returned, otherwise the service is called.  v is the unit's own
\* once read and line 48 reads only the clock besides, so the read and the
\* test are one step.
Lookup(u) ==
    /\ ~crashed
    /\ pc[u] = "lookup"
    /\ \E r \in (IF WriterBeside(u) THEN RacyReads(code[u]) ELSE {MapGet(prices, code[u])}) :
          IF r.ok /\ Fresh(r.v, now, maxAge)
          THEN /\ ret' = [ret EXCEPT ![u] = priceResponse(r.v.Price, NilErr)]
               /\ pc' = [pc EXCEPT ![u] = "done"]
               /\ UNCHANGED calls
          ELSE /\ pc' = [pc EXCEPT ![u] = "call"]
               /\ calls' = [calls EXCEPT ![u] = @ + 1]
               /\ UNCHANGED ret
    /\ lookT' = IF u = 0 THEN now ELSE lookT
    /\ UNCHANGED <<cacheVars, batchVars, now, crashed, code, at, retAt, pre, t0, svc, prev, sent, raceVars>>

\* line 46 beside a write: the runtime may detect the race and stop the process
\* ("fatal error: concurrent map read and map write").
LookupFatal(u) ==
    /\ ~crashed
    /\ pc[u] = "lookup"
    /\ WriterBeside(u)
    /\ crashed' = TRUE
    /\ UNCHANGED <<cacheVars, batchVars, histVars, now, pc, code, at, retAt, ret, calls, raceVars>>

\* line 52: the service answers a price.
ServiceOk(u) ==
    /\ ~crashed
    /\ pc[u] = "call"
    /\ \E p \in Prices : ret' = [ret EXCEPT ![u] = priceResponse(p, NilErr)]
    /\ pc' = [pc EXCEPT ![u] = "lock"]
    /\ svc' = IF u = 0 THEN ret'[u] ELSE svc
    /\ order' = IF traced THEN Append(order, u) ELSE order
    /\ retAt' = [retAt EXCEPT ![u] = now]
    /\ UNCHANGED <<cacheVars, batchVars, now, crashed, code, at, calls, pre, t0, lookT,
                   prev, sent, traced, wrote>>

\* Mutant of ServiceFail: the failed answer is cached as a zero price.
ServiceFailStores(u) ==
    /\ ~crashed
    /\ pc[u] = "call"
    /\ \E e \in SvcErrors :
          /\ ret' = [ret EXCEPT ![u] = priceResponse(0, WrapErr(e))]
          /\ svc' = IF u = 0 THEN priceResponse(0, e) ELSE svc
    /\ prices' = MapPut(prices, code[u], priceValue(0, now))
    /\ pc' = [pc EXCEPT ![u] = "done"]
    /\ UNCHANGED <<maxAge, mutex, batchVars, now, crashed, code, at, retAt, calls, pre, t0, lookT, prev, sent, raceVars>>

\* Mutant of ServiceFail: a failed call is made again.
ServiceFailRetries(u) ==
    /\ ~crashed
    /\ pc[u] = "call"
    /\ IF calls[u] < 2
       THEN /\ calls' = [calls EXCEPT ![u] = @ + 1]
            /\ UNCHANGED <<ret, svc, pc>>
       ELSE /\ \E e \in SvcErrors :
                  /\ ret' = [ret EXCEPT ![u] = priceResponse(0, WrapErr(e))]
                  /\ svc' = IF u = 0 THEN priceResponse(0, e) ELSE svc
            /\ pc' = [pc EXCEPT ![u] = "done"]
            /\ UNCHANGED calls
    /\ UNCHANGED <<cacheVars, batchVars, now, crashed, code, at, retAt, pre, t0, lookT, prev, sent, raceVars>>

\* lines 52-55: the service answers an error; GetPriceFor returns 0 and the
\* wrapped error.
ServiceFail(u) ==
    /\ ~crashed
    /\ pc[u] = "call"
    /\ \E e \in SvcErrors :
          /\ ret' = [ret EXCEPT ![u] = priceResponse(0, WrapErr(e))]
          /\ svc' = IF u = 0 THEN priceResponse(0, e) ELSE svc
    /\ pc' = [pc EXCEPT ![u] = "done"]
    /\ UNCHANGED <<cacheVars, batchVars, now, crashed, code, at, retAt, calls, pre, t0, lookT, prev, sent, raceVars>>

\* Mutant of Lock: the unit goes on without waiting for the mutex.
LockNoWait(u) ==
    /\ ~crashed
    /\ pc[u] = "lock"
    /\ mutex' = u
    /\ at' = [at EXCEPT ![u] = now]
    /\ UNCHANGED retAt
    /\ pc' = [pc EXCEPT ![u] = "write"]
    /\ UNCHANGED <<maxAge, prices, batchVars, histVars, now, crashed, code, ret, calls, raceVars>>

\* lines 56-59: c.mutex.Lock(), then time.Now() for the new priceValue.
Lock(u) ==
    /\ ~crashed
    /\ pc[u] = "lock"
    /\ mutex = -1
    /\ mutex' = u
    /\ at' = [at EXCEPT ![u] = now]
    /\ UNCHANGED retAt
    /\ pc' = [pc EXCEPT ![u] = "write"]
    /\ UNCHANGED <<maxAge, prices, batchVars, histVars, now, crashed, code, ret, calls, raceVars>>

\* Mutant of Write: the priceValue is built without its CreatedAt.
WriteNoTime(u) ==
    /\ ~crashed
    /\ pc[u] = "write"
    /\ prices' = MapPut(prices, code[u], priceValue(ret[u].Price, 0))
    /\ mutex' = -1
    /\ at' = [at EXCEPT ![u] = 0]
    /\ retAt' = [retAt EXCEPT ![u] = 0]
    /\ pc' = [pc EXCEPT ![u] = "done"]
    /\ wrote' = IF traced THEN Append(wrote, u) ELSE wrote
    /\ UNCHANGED <<maxAge, batchVars, histVars, now, crashed, code, ret, calls,
                   traced, order>>

\* Mutant of Write: under the mutex the entry is looked at again, and one
\* that is fresh is kept.
WriteUnlessFresh(u) ==
    /\ ~crashed
    /\ pc[u] = "write"
    /\ LET r == MapGet(prices, code[u]) IN
          prices' = IF r.ok /\ Fresh(r.v, now, maxAge)
                    THEN prices
                    ELSE MapPut(prices, code[u], priceValue(ret[u].Price, at[u]))
    /\ mutex' = -1
    /\ at' = [at EXCEPT ![u] = 0]
    /\ retAt' = [retAt EXCEPT ![u] = 0]
    /\ pc' = [pc EXCEPT ![u] = "done"]
    /\ wrote' = IF traced THEN Append(wrote, u) ELSE wrote
    /\ UNCHANGED <<maxAge, batchVars, histVars, now, crashed, code, ret, calls,
                   traced, order>>

\* lines 57-63: the map write, c.mutex.Unlock(), return price, nil.
Write(u) ==
    /\ ~crashed
    /\ pc[u] = "write"
    /\ prices' = MapPut(prices, code[u], priceValue(ret[u].Price, at[u]))
    /\ mutex' = -1
    /\ at' = [at EXCEPT ![u] = 0]
    /\ retAt' = [retAt EXCEPT ![u] = 0]
    /\ pc' = [pc EXCEPT ![u] = "done"]
    /\ wrote' = IF traced THEN Append(wrote, u) ELSE wrote
    /\ UNCHANGED <<maxAge, batchVars, histVars, now, crashed, code, ret, calls,
                   traced, order>>

\* ------------------------------------------------------------ the client
ClientFree ==
    \/ mpc \in {"idle", "returned"}
    \/ mpc = "single" /\ pc[0] = "done"

\* The client calls c.GetPriceFor(k) itself (unit 0).
StartGetPriceFor ==
    /\ ~crashed
    /\ ClientFree
    /\ ops < MaxOps
    /\ \E k \in Codes : code' = [u \in Units |-> IF u = 0 THEN k ELSE "A"]
    /\ pc' = [u \in Units |-> IF u = 0 THEN "lookup" ELSE "idle"]
    /\ at' = [u \in Units |-> 0]
    /\ retAt' = [u \in Units |-> 0]
    /\ ret' = [u \in Units |-> NoRet]
    /\ calls' = [u \in Units |-> 0]
    /\ mpc' = "single"
    /\ itemCodes' = << >>
    /\ output' = << >>
    /\ closed' = FALSE
    /\ wg' = 0
    /\ results' = << >>
    /\ rerr' = NilErr
    /\ ops' = ops + 1
    /\ pre' = prices
    /\ t0' = now
    /\ lookT' = 0
    /\ svc' = NoRet
    /\ prev' = IF mpc = "single"
               THEN [n |-> prev.n + 1, svcN |-> prev.svcN + calls[0], code |-> code[0],
                     t0 |-> t0, lastCalls |-> calls[0], ret |-> ret[0]]
               ELSE NoPrev
    /\ sent' = << >>
    /\ order' = << >>
    /\ wrote' = << >>
    /\ UNCHANGED <<cacheVars, now, crashed, traced>>

BatchArgs == UNION {[1 .. n -> Codes] : n \in 0 .. MaxBatch}

\* lines 68-85: make the channel, wg.Add(len(itemCodes)), go worker(code) for
\* every code.
StartGetPricesFor ==
    /\ ~crashed
    /\ ClientFree
    /\ ops < MaxOps
    /\ \E cs \in BatchArgs :
          /\ itemCodes' = cs
          /\ wg' = Len(cs)
          /\ pc' = [u \in Units |-> IF u \in 1 .. Len(cs) THEN "lookup" ELSE "idle"]
          /\ code' = [u \in Units |-> IF u \in 1 .. Len(cs) THEN cs[u] ELSE "A"]
          /\ pre' = IF cs = << >> THEN prices ELSE << >>
    /\ at' = [u \in Units |-> 0]
    /\ retAt' = [u \in Units |-> 0]
    /\ ret' = [u \in Units |-> NoRet]
    /\ calls' = [u \in Units |-> 0]
    /\ mpc' = "wait"
    /\ output' = << >>
    /\ closed' = FALSE
    /\ results' = << >>
    /\ rerr' = NilErr
    /\ ops' = ops + 1
    /\ t0' = 0
    /\ lookT' = 0
    /\ svc' = NoRet
    /\ prev' = NoPrev
    /\ sent' = << >>
    /\ order' = << >>
    /\ wrote' = << >>
    /\ UNCHANGED <<cacheVars, now, crashed, traced>>

\* Mutant of WorkerSend: a worker whose GetPriceFor failed sends nothing.
WorkerSendPricesOnly(w) ==
    /\ ~crashed
    /\ w \in Workers
    /\ pc[w] = "done"
    /\ IF ret[w].Err # NilErr
       THEN UNCHANGED <<output, sent>>
       ELSE /\ Len(output) < Len(itemCodes)
            /\ output' = Append(output, ret[w])
            /\ sent' = Append(sent, ret[w])
    /\ wg' = wg - 1
    /\ pc' = [pc EXCEPT ![w] = "exit"]
    /\ UNCHANGED <<cacheVars, now, crashed, code, at, retAt, ret, calls, mpc, itemCodes,
                   closed, results, rerr, ops, pre, t0, lookT, svc, prev, raceVars>>

\* lines 74-79: the worker sends what GetPriceFor returned, then wg.Done().
\* The channel holds len(itemCodes) values, and a send on a closed channel
\* panics.  Nothing reads the counter between the send and wg.Done() but
\* wg.Wait(), which needs them all: the two are one step.
WorkerSend(w) ==
    /\ ~crashed
    /\ w \in Workers
    /\ pc[w] = "done"
    /\ IF closed
       THEN /\ crashed' = TRUE
            /\ UNCHANGED <<output, pc, wg, sent>>
       ELSE /\ Len(output) < Len(itemCodes)
            /\ output' = Append(output, ret[w])
            /\ sent' = Append(sent, ret[w])
            /\ wg' = wg - 1
            /\ pc' = [pc EXCEPT ![w] = "exit"]
            /\ UNCHANGED crashed
    /\ UNCHANGED <<cacheVars, now, code, at, retAt, ret, calls, mpc, itemCodes,
                   closed, results, rerr, ops, pre, t0, lookT, svc, prev, raceVars>>

\* Mutant of Wait: the client does not wait for the workers.
WaitNoWait ==
    /\ ~crashed
    /\ mpc = "wait"
    /\ mpc' = "collect"
    /\ results' = << >>
    /\ UNCHANGED <<cacheVars, histVars, now, crashed, pc, code, at, retAt, ret, calls,
                   itemCodes, output, closed, wg, rerr, ops, raceVars>>

\* line 86: wg.Wait() returns once the counter is zero; line 88.
Wait ==
    /\ ~crashed
    /\ mpc = "wait"
    /\ wg = 0
    /\ mpc' = "collect"
    /\ results' = << >>
    /\ UNCHANGED <<cacheVars, histVars, now, crashed, pc, code, at, retAt, ret, calls,
                   itemCodes, output, closed, wg, rerr, ops, raceVars>>

\* Mutant of Collect: a failed response is skipped over.
CollectSkipsErr ==
    /\ ~crashed
    /\ mpc = "collect"
    /\ Len(results) < Len(itemCodes)
    /\ output # << >>
    /\ output' = Tail(output)
    /\ results' = Append(results, Head(output).Price)
    /\ UNCHANGED <<cacheVars, histVars, now, crashed, pc, code, at, retAt, ret, calls,
                   itemCodes, wg, ops, rerr, mpc, closed, raceVars>>

\* Mutant of Collect: a failed response ends the call with no prices.
CollectDropsPartial ==
    /\ ~crashed
    /\ mpc = "collect"
    /\ Len(results) < Len(itemCodes)
    /\ output # << >>
    /\ LET r == Head(output) IN
          /\ output' = Tail(output)
          /\ IF r.Err # NilErr
             THEN /\ rerr' = r.Err
                  /\ mpc' = "returned"
                  /\ closed' = TRUE
                  /\ results' = << >>
             ELSE /\ results' = Append(results, r.Price)
                  /\ UNCHANGED <<rerr, mpc, closed>>
    /\ UNCHANGED <<cacheVars, histVars, now, crashed, pc, code, at, retAt, ret, calls,
                   itemCodes, wg, ops, raceVars>>

\* lines 89-95, one turn of the loop: i is len(results), for every turn that
\* does not return appends one price.  A failed response ends the call with
\* the prices collected so far; the deferred close(output) runs.
Collect ==
    /\ ~crashed
    /\ mpc = "collect"
    /\ Len(results) < Len(itemCodes)
    /\ output # << >>
    /\ LET r == Head(output) IN
          /\ output' = Tail(output)
          /\ IF r.Err # NilErr
             THEN /\ rerr' = r.Err
                  /\ mpc' = "returned"
                  /\ closed' = TRUE
                  /\ UNCHANGED results
             ELSE /\ results' = Append(results, r.Price)
                  /\ UNCHANGED <<rerr, mpc, closed>>
    /\ UNCHANGED <<cacheVars, histVars, now, crashed, pc, code, at, retAt, ret, calls,
                   itemCodes, wg, ops, raceVars>>

\* Mutant of CollectReturn: the loop runs to len(itemCodes) - 1.
CollectReturnEarly ==
    /\ ~crashed
    /\ mpc = "collect"
    /\ Len(results) >= Len(itemCodes) - 1
    /\ rerr' = NilErr
    /\ mpc' = "returned"
    /\ closed' = TRUE
    /\ UNCHANGED <<cacheVars, histVars, now, crashed, pc, code, at, retAt, ret, calls,
                   itemCodes, output, wg, results, ops, raceVars>>

\* Mutant of CollectReturn: no prices collected is taken for a failure.
CollectReturnNoPrices ==
    /\ ~crashed
    /\ mpc = "collect"
    /\ Len(results) >= Len(itemCodes)
    /\ rerr' = IF results = << >> THEN <<"no prices">> ELSE NilErr
    /\ mpc' = "returned"
    /\ closed' = TRUE
    /\ UNCHANGED <<cacheVars, histVars, now, crashed, pc, code, at, retAt, ret, calls,
                   itemCodes, output, wg, results, ops, raceVars>>

\* line 97: return results, nil; the deferred close(output) runs.
CollectReturn ==
    /\ ~crashed
    /\ mpc = "collect"
    /\ Len(results) >= Len(itemCodes)
    /\ rerr' = NilErr
    /\ mpc' = "returned"
    /\ closed' = TRUE
    /\ UNCHANGED <<cacheVars, histVars, now, crashed, pc, code, at, retAt, ret, calls,
                   itemCodes, output, wg, results, ops, raceVars>>

\* Time passes.
Tick ==
    /\ ~crashed
    /\ now + 1 \in Clock
    /\ now' = now + 1
    /\ UNCHANGED <<cacheVars, batchVars, histVars, crashed, pc, code, at, retAt, ret, calls, raceVars>>

Next ==
    \/ Tick
    \/ StartGetPriceFor
    \/ StartGetPricesFor
    \/ Wait
    \/ Collect
    \/ CollectReturn
    \/ \E u \in Units : Lookup(u)
    \/ \E u \in Units : LookupFatal(u)
    \/ \E u \in Units : ServiceOk(u)
    \/ \E u \in Units : ServiceFail(u)
    \/ \E u \in Units : Lock(u)
    \/ \E u \in Units : Write(u)
    \/ \E w \in Workers : WorkerSend(w)

Spec == Init /\ [][Next]_vars

\* One GetPricesFor call on a new cache.
BatchNext ==
    \/ Tick
    \/ StartGetPricesFor /\ ops = 0
    \/ Wait
    \/ Collect
    \/ CollectReturn
    \/ \E w \in Workers : Lookup(w)
    \/ \E w \in Workers : LookupFatal(w)
    \/ \E w \in Workers : ServiceOk(w)
    \/ \E w \in Workers : ServiceFail(w)
    \/ \E w \in Workers : Lock(w)
    \/ \E w \in Workers : Write(w)
    \/ \E w \in Workers : WorkerSend(w)

\* The same call, traced: the order of the service's answers and of the map
\* writes is kept.
RaceSpec == InitTraced(TRUE) /\ [][BatchNext]_vars

\* The same call under fair scheduling: the client and every worker go on
\* while they can, every service call is answered, and a worker waiting for
\* the mutex gets it (sync.Mutex lets no waiter starve).  Nothing makes the
\* runtime detect a race.
WorkerStep(w) ==
    Lookup(w) \/ ServiceOk(w) \/ ServiceFail(w) \/ Write(w) \/ WorkerSend(w)

Fairness ==
    /\ WF_vars(Wait \/ Collect \/ CollectReturn)
    /\ \A w \in Workers : WF_vars(WorkerStep(w)) /\ SF_vars(Lock(w))

FairSpec == Init /\ [][BatchNext]_vars /\ Fairness

\* ===================================================================
\* Properties
\* ===================================================================

\* The client's own GetPriceFor(k0) has returned.
Returned0 == mpc = "single" /\ pc[0] = "done"
k0 == code[0]

\* GetPricesFor has returned; its tasks are the workers 1..Len(itemCodes).
BatchReturned == mpc = "returned"
Tasks == 1 .. Len(itemCodes)

\* The running call follows a GetPriceFor of the same code.
FollowsSameCode == prev.n > 0 /\ prev.code = k0

\* The task's GetPriceFor fetched a price from the service.
Fetched(w) == calls[w] = 1 /\ ret[w].Err = NilErr

\* How often price p occurs in the sequence s.
Count(s, p) == Cardinality({i \in 1 .. Len(s) : s[i] = p})

\* C1: cache hit.  A GetPriceFor(k) that finds in the store an entry of k
\* younger than maxAge returns that entry's price and no error, calls the
\* service not at all and leaves the store alone; and of two GetPriceFor(k)
\* calls in a row that lie within maxAge, the first having fetched, the
\* second returns the same price and calls the service not at all: one
\* service call in total.
Thm_C1 ==
    Returned0 =>
        /\ (k0 \in DOMAIN pre /\ lookT - pre[k0].CreatedAt < maxAge)
              => /\ ret[0] = priceResponse(pre[k0].Price, NilErr)
                 /\ calls[0] = 0
                 /\ prices = pre
        /\ (FollowsSameCode /\ prev.lastCalls = 1
               /\ prev.ret.Err = NilErr /\ now - prev.t0 < maxAge)
              => /\ calls[0] = 0
                 /\ ret[0] = prev.ret
                 /\ prev.lastCalls + calls[0] = 1

Wit_C1 ==
    /\ Returned0
    /\ FollowsSameCode /\ prev.lastCalls = 1 /\ prev.ret.Err = NilErr
    /\ now - prev.t0 < maxAge
    /\ calls[0] = 0
    /\ ret[0] = priceResponse(20, NilErr)

\* C2: staleness.  A GetPriceFor(k) that finds the entry of k older than
\* maxAge (its CreatedAt being the time of the last successful fetch of k)
\* calls the service and returns what the service answers; a price returned
\* without a service call is that of an entry not older than maxAge.
Thm_C2 ==
    Returned0 =>
        /\ (k0 \in DOMAIN pre /\ lookT - pre[k0].CreatedAt > maxAge)
              => /\ calls[0] = 1
                 /\ svc.Err = NilErr => ret[0] = svc
        /\ calls[0] = 0
              => /\ k0 \in DOMAIN pre
                 /\ ~(lookT - pre[k0].CreatedAt > maxAge)
                 /\ ret[0].Price = pre[k0].Price

Wit_C2 ==
    /\ Returned0
    /\ k0 \in DOMAIN pre
    /\ lookT - pre[k0].CreatedAt > maxAge
    /\ calls[0] = 1
    /\ ret[0].Err = NilErr
    /\ ret[0].Price # pre[k0].Price

\* C3: a failed fetch leaves the store unchanged.  When the service fails the
\* call made by GetPriceFor(k), GetPriceFor returns price 0 and the wrapped
\* error, and the store is what it was when the call started.
Thm_C3 ==
    (Returned0 /\ calls[0] = 1 /\ svc.Err # NilErr) =>
        /\ ret[0].Price = 0
        /\ ret[0].Err # NilErr
        /\ ret[0].Err = WrapErr(svc.Err)
        /\ prices = pre

Wit_C3 ==
    /\ Returned0 /\ calls[0] = 1 /\ svc.Err # NilErr
    /\ k0 \in DOMAIN pre
    /\ prices[k0] = pre[k0]

\* C4: no negative caching, no retry.  A GetPriceFor(k) that follows a failed
\* GetPriceFor(k) calls the service again; and no GetPriceFor makes more than
\* one service call.
Thm_C4 ==
    /\ \A u \in Units : calls[u] <= 1
    /\ (Returned0 /\ FollowsSameCode /\ prev.ret.Err # NilErr) => calls[0] = 1

Wit_C4 ==
    /\ Returned0 /\ FollowsSameCode /\ prev.ret.Err # NilErr
    /\ prev.lastCalls = 1
    /\ now - prev.t0 < maxAge
    /\ calls[0] = 1

\* C5: a successful fetch writes through.  When GetPriceFor(k) calls the
\* service and is answered p, it returns p and no error, and the store holds
\* under k the price p with a CreatedAt read during the call, whatever it held
\* under k before; the other entries are as they were.
Thm_C5 ==
    (Returned0 /\ calls[0] = 1 /\ svc.Err = NilErr) =>
        /\ ret[0] = svc
        /\ DOMAIN prices = DOMAIN pre \cup {k0}
        /\ prices[k0].Price = svc.Price
        /\ lookT <= prices[k0].CreatedAt /\ prices[k0].CreatedAt <= now
        /\ \A j \in DOMAIN pre \ {k0} : prices[j] = pre[j]

Wit_C5 ==
    /\ Returned0 /\ calls[0] = 1 /\ svc.Err = NilErr
    /\ k0 \in DOMAIN pre
    /\ pre[k0].Price # prices[k0].Price
    /\ pre[k0].CreatedAt # prices[k0].CreatedAt

\* C6: with maxAge = 0 every GetPriceFor calls the service: a unit past its
\* lookup has made one call, and n calls in a row have made n service calls.
Thm_C6 ==
    maxAge = 0 =>
        /\ \A u \in Units : pc[u] \in {"call", "lock", "write", "done", "exit"} => calls[u] = 1
        /\ Returned0 => prev.svcN + calls[0] = prev.n + 1

Wit_C6 ==
    /\ maxAge = 0
    /\ Returned0 /\ FollowsSameCode
    /\ k0 \in DOMAIN pre /\ pre[k0].CreatedAt = lookT
    /\ prev.svcN + calls[0] = 2

\* C7: batch completeness.  When no task of GetPricesFor(c1..cn) failed, it
\* returns no error and n prices, and they are the prices the tasks'
\* GetPriceFor calls returned, each as often as returned.
Thm_C7 ==
    (BatchReturned /\ \A w \in Tasks : ret[w].Err = NilErr) =>
        /\ rerr = NilErr
        /\ Len(results) = Len(itemCodes)
        /\ \A p \in Prices \cup {0} :
              Count(results, p) = Cardinality({w \in Tasks : ret[w].Price = p})

Wit_C7 ==
    /\ BatchReturned /\ rerr = NilErr
    /\ itemCodes = <<"A", "A">>
    /\ results = <<20, 10>>

\* C8: batch failure propagation.  When the lookup of some task failed,
\* GetPricesFor returns an error, and it is a failed task's error.
Thm_C8 ==
    (BatchReturned /\ \E w \in Tasks : ret[w].Err # NilErr) =>
        /\ rerr # NilErr
        /\ \E w \in Tasks : ret[w].Err = rerr

Wit_C8 ==
    /\ BatchReturned
    /\ Len(itemCodes) = 2
    /\ ret[1].Err # NilErr /\ ret[2].Err = NilErr
    /\ Len(results) = 1
    /\ rerr # NilErr

\* C9: result order.  When no lookup failed, the i-th price GetPricesFor
\* returns is the price of the i-th code asked for: a price that a task of
\* that code returned.
CE_C9 ==
    (BatchReturned /\ rerr = NilErr) =>
        \A i \in 1 .. Len(results) :
            \E x \in Tasks : code[x] = itemCodes[i] /\ ret[x].Price = results[i]

\* C10: no early cancellation.  GetPricesFor starts one task per code and
\* goes on to collect, and returns, only when every task is over; so when it
\* returns an error, every code whose task fetched a price is in the store
\* with a price fetched for it in this batch.
Thm_C10 ==
    /\ mpc \in {"wait", "collect", "returned"} =>
          \A w \in Workers : (pc[w] # "idle") = (w \in Tasks)
    /\ mpc \in {"collect", "returned"} => \A w \in Tasks : pc[w] = "exit"
    /\ (BatchReturned /\ rerr # NilErr) =>
          \A w \in Tasks : Fetched(w) =>
              /\ code[w] \in DOMAIN prices
              /\ \E x \in Tasks : /\ code[x] = code[w]
                                  /\ Fetched(x)
                                  /\ prices[code[w]].Price = ret[x].Price

Wit_C10 ==
    /\ BatchReturned /\ rerr # NilErr
    /\ itemCodes = <<"A", "B">>
    /\ Fetched(1) /\ ret[2].Err # NilErr
    /\ results = << >>
    /\ "A" \in DOMAIN prices /\ prices["A"].Price = ret[1].Price
    /\ "B" \notin DOMAIN prices

\* C11: empty batch.  GetPricesFor called without codes starts no task, makes
\* no service call, and returns no price and no error; the store is what it
\* was when the call started.
EmptyBatch == mpc \in {"wait", "collect", "returned"} /\ itemCodes = << >>

Thm_C11 ==
    EmptyBatch =>
        /\ \A u \in Units : pc[u] = "idle" /\ calls[u] = 0
        /\ wg = 0 /\ output = << >>
        /\ results = << >>
        /\ rerr = NilErr
        /\ prices = pre

Wit_C11 ==
    /\ BatchReturned /\ itemCodes = << >>
    /\ results = << >> /\ rerr = NilErr
    /\ "B" \in DOMAIN prices /\ prices = pre

\* C12: write mutual exclusion.  At most one unit is at the map write of
\* lines 57-60, and it is the unit holding the mutex; a unit holds the mutex
\* only there: not while it looks up or calls the service, and no longer once
\* it has written.
Thm_C12 ==
    /\ Cardinality({u \in Units : pc[u] = "write"}) <= 1
    /\ \A u \in Units : (pc[u] = "write") => mutex = u
    /\ \A u \in Units :
          pc[u] \in {"idle", "lookup", "call", "lock", "done", "exit"} => mutex # u
    /\ (\A u \in Units : pc[u] # "write") => mutex = -1

Wit_C12 ==
    /\ pc[1] = "write" /\ mutex = 1
    /\ pc[2] = "lock"
    /\ code[1] = code[2]
    /\ "A" \in DOMAIN prices

\* C13: reads synchronized with writes.  No unit is at the map read of line 46
\* while another unit is between Lock and Unlock, writing the map.
CE_C13 ==
    \A u \in Units : pc[u] = "lookup" => ~WriterBeside(u)

\* C14: partial result on failure.  The responses are sent once per task, and
\* when some task failed, GetPricesFor returns the error of the first failed
\* response in the order sent, and the prices of the responses sent before
\* it, in that order, and no other price.
FirstFailed ==
    CHOOSE i \in 1 .. Len(sent) :
        /\ sent[i].Err # NilErr
        /\ \A j \in 1 .. (i - 1) : sent[j].Err = NilErr

Thm_C14 ==
    (BatchReturned /\ \E w \in Tasks : ret[w].Err # NilErr) =>
        /\ Len(sent) = Len(itemCodes)
        /\ \A w \in Tasks :
              Count(sent, ret[w]) = Cardinality({x \in Tasks : ret[x] = ret[w]})
        /\ rerr = sent[FirstFailed].Err
        /\ results = [i \in 1 .. (FirstFailed - 1) |-> sent[i].Price]

Wit_C14 ==
    /\ BatchReturned
    /\ itemCodes = <<"A", "B">>
    /\ ret[1].Err # NilErr /\ ret[2] = priceResponse(20, NilErr)
    /\ sent = <<ret[2], ret[1]>>
    /\ results = <<20>>
    /\ rerr = WrapErr(<<"unavailable">>)

\* C15: no single-flight.  Two tasks of the same code may both miss and both
\* call the service; whatever the order in which the service answered, the
\* store holds under every code the price of the unit that wrote it last.
WritesOf(k) == {i \in 1 .. Len(wrote) : code[wrote[i]] = k}

LastWrite(k) == CHOOSE i \in WritesOf(k) : \A j \in WritesOf(k) : j <= i

Thm_C15 ==
    \A k \in Codes :
        IF WritesOf(k) = {}
        THEN k \notin DOMAIN prices
        ELSE /\ k \in DOMAIN prices
             /\ prices[k].Price = ret[wrote[LastWrite(k)]].Price

Wit_C15 ==
    /\ BatchReturned /\ rerr = NilErr
    /\ itemCodes = <<"A", "A">>
    /\ maxAge = 1 /\ now = 0
    /\ calls[1] = 1 /\ calls[2] = 1
    /\ ret[1].Price = 10 /\ ret[2].Price = 20
    /\ order = <<1, 2>>
    /\ wrote = <<2, 1>>
    /\ prices["A"].Price = 10

\* C16: provenance of the store.  The store starts empty, and a step that
\* puts or changes the entry of a code k is the write of a unit whose
\* GetPriceFor is of k, whose one service call was answered a price, and the
\* entry it leaves is that price with a CreatedAt not earlier than the
\* service's answer; what the service answered stays the unit's until it has
\* written.
Changed(k) == k \in DOMAIN prices' /\ (k \in DOMAIN prices => prices'[k] # prices[k])

Writes(u) == pc[u] = "write" /\ pc'[u] = "done"

Thm_C16 ==
    [][ /\ \A k \in Codes :
              Changed(k) =>
                  \E u \in Units :
                      /\ Writes(u) /\ code[u] = k
                      /\ calls[u] = 1 /\ ret[u].Err = NilErr
                      /\ prices'[k].Price = ret[u].Price
                      /\ retAt[u] <= prices'[k].CreatedAt
                      /\ prices'[k].CreatedAt <= now
        /\ \A u \in Units :
              (pc[u] \in {"lock", "write"} /\ pc'[u] \in {"lock", "write"}) =>
                  /\ ret'[u] = ret[u] /\ ret[u].Err = NilErr
                  /\ retAt'[u] = retAt[u] /\ retAt[u] <= now
                  /\ code'[u] = code[u]
      ]_vars

Wit_C16 ==
    /\ mpc = "wait"
    /\ itemCodes = <<"A", "B">>
    /\ pc[1] = "exit" /\ Fetched(1)
    /\ pc[2] = "done" /\ ret[2].Err # NilErr
    /\ prices = [k \in {"A"} |-> priceValue(ret[1].Price, 1)]

\* C17: entries are never deleted.  No step takes a code out of the store; an
\* entry stays as it is, stale or not, until a unit that fetched a price for
\* its code writes it; and a step of GetPriceFor(k) leaves the entries of the
\* codes other than k as they are.
InGetPriceFor(u) == pc[u] \in {"lookup", "call", "lock", "write"} /\ pc'[u] # pc[u]

Thm_C17 ==
    [][ /\ DOMAIN prices \subseteq DOMAIN prices'
        /\ \A k \in DOMAIN prices :
              prices'[k] # prices[k] =>
                  \E u \in Units : Writes(u) /\ code[u] = k /\ ret[u].Err = NilErr
        /\ \A u \in Units :
              InGetPriceFor(u) =>
                  /\ DOMAIN prices' \subseteq DOMAIN prices \cup {code[u]}
                  /\ \A j \in DOMAIN prices \ {code[u]} : prices'[j] = prices[j]
      ]_vars

Wit_C17 ==
    /\ mpc = "single" /\ pc[0] = "call" /\ k0 = "A"
    /\ DOMAIN prices = {"A", "B"}
    /\ prices = pre
    /\ now - prices["A"].CreatedAt > maxAge

\* C18: the freshness boundary.  As claimed: a GetPriceFor(k) that finds the
\* entry of k exactly maxAge old, maxAge > 0, returns its price without
\* calling the service.
AtBoundary == Returned0 /\ k0 \in DOMAIN pre /\ lookT - pre[k0].CreatedAt = maxAge

CE_C18 ==
    (AtBoundary /\ maxAge > 0) =>
        /\ calls[0] = 0
        /\ ret[0] = priceResponse(pre[k0].Price, NilErr)

\* C18, amended: an entry exactly maxAge old is stale.  A GetPriceFor(k) that
\* finds it calls the service once and returns what the service answers: the
\* price answered, or price 0 and the wrapped error.
Thm_C18 ==
    AtBoundary =>
        /\ calls[0] = 1
        /\ svc.Err = NilErr => ret[0] = svc
        /\ svc.Err # NilErr => ret[0] = priceResponse(0, WrapErr(svc.Err))

Wit_C18 ==
    /\ AtBoundary /\ maxAge = 1
    /\ calls[0] = 1
    /\ ret[0].Err = NilErr
    /\ ret[0].Price # pre[k0].Price
    /\ prices[k0] = priceValue(ret[0].Price, lookT)

\* C19: termination and stall of a batch.  Under fair scheduling, every
\* service call being answered, a GetPricesFor that has started returns; and
\* while the service call of some task is not answered, GetPricesFor has not
\* returned: it is at wg.Wait().
CE_C19 ==
    /\ (mpc = "wait") ~> (mpc = "returned")
    /\ [](\A w \in Workers : pc[w] = "call" => mpc = "wait")

\* C20: the output channel.  It never holds more than len(itemCodes)
\* responses, and a worker about to send finds room in it and finds it open;
\* when the loop of line 88 starts it holds len(itemCodes) responses, and in
\* every turn of the loop one is there to receive; it is closed only when
\* GetPricesFor returns, every worker having sent.
Thm_C20 ==
    /\ Len(output) <= Len(itemCodes)
    /\ \A w \in Workers :
          pc[w] = "done" => Len(output) < Len(itemCodes) /\ ~closed
    /\ mpc = "collect" =>
          /\ Len(output) + Len(results) = Len(itemCodes)
          /\ Len(results) < Len(itemCodes) => output # << >>
          /\ wg = 0
    /\ closed =>
          /\ mpc = "returned"
          /\ \A w \in Tasks : pc[w] = "exit"
          /\ Len(sent) = Len(itemCodes)

Wit_C20 ==
    /\ closed /\ rerr # NilErr
    /\ Len(itemCodes) = 2
    /\ results = << >>
    /\ Len(output) = 1
    /\ \A w \in Tasks : pc[w] = "exit"

====
